---------------------------- MODULE Spec2Model ----------------------------
(***************************************************************************)
(* A model of kpet/data.py: the typed object binder (Object), the domain   *)
(* entities (Case, Suite, Base) and the selection of test cases and test   *)
(* suites by a set of source paths.                                        *)
(*                                                                         *)
(* Python objects are compared and hashed by identity (Object defines      *)
(* neither __eq__ nor __hash__), so a Case object is modelled by a         *)
(* reference [suite, idx]: the position of its suite in Base.suites and    *)
(* its own position in Suite.cases. A Suite object is modelled by its      *)
(* position in Base.suites.                                                *)
(***************************************************************************)
EXTENDS Integers, Sequences, FiniteSets, TLC

VARIABLES
    dir,        \* the database directory: index.yaml, suite files, templates
    debug,      \* Python's __debug__: whether assert statements are executed
    suites,     \* Base.suites: the sequence of Suite objects of the database
    trees,      \* Base.trees: tree name -> template file path
    ret         \* the last call made, with what it returned or raised

vars == <<dir, debug, suites, trees, ret>>

---------------------------------------------------------------------------
(* Bounds *)

\* The size of a database: every suite, case and pattern counts one.
MaxItems == 6

---------------------------------------------------------------------------
(* Data *)

\* Python's None, where a Case object is expected.
None == [suite |-> 0, idx |-> 0]

\* Python's None, as the value of an attribute.
NoneValue == "None"

\* Source paths a caller may pass: "dn", "fn".
Paths == { <<"d", "n">>, <<"f", "n">> }

\* Compiled regular expressions: a sequence of tokens, each a literal
\* character or "." (any character), and whether the expression ends in "$".
\* The two used are "d" and ".n$".
Regexes == { [toks |-> <<"d">>, dollar |-> FALSE],
             [toks |-> <<".", "n">>, dollar |-> TRUE] }

CaseNames == {"a", "b"}

\* Case documents: the required name and one optional field (tasks).
CaseDocs == { [name |-> "a", tasks |-> NoneValue],
              [name |-> "a", tasks |-> "t"],
              [name |-> "b", tasks |-> NoneValue] }

\* Entries of Suite.patterns.
PatternDocs == [pattern : Regexes, case_name : CaseNames]

RECURSIVE SeqsOfLen(_, _)
SeqsOfLen(S, n) ==
    IF n = 0 THEN { <<>> }
    ELSE { Append(q, x) : q \in SeqsOfLen(S, n - 1), x \in S }

\* Suites of size k: one for the suite, c cases and k - 1 - c patterns.
SuitesOfSize(k) ==
    UNION { { [cases |-> cs, patterns |-> ps] :
                cs \in SeqsOfLen(CaseDocs, c),
                ps \in SeqsOfLen(PatternDocs, k - 1 - c) } : c \in 0..(k - 1) }

\* Databases (sequences of suites) of size at most n.
RECURSIVE DatabasesUpTo(_)
DatabasesUpTo(n) ==
    { <<>> } \cup
    UNION { { <<s>> \o d : s \in SuitesOfSize(k), d \in DatabasesUpTo(n - k) } :
            k \in 1..n }

---------------------------------------------------------------------------
(* Suite *)

\* The Case object at position i of suite s.
CaseRef(s, i) == [suite |-> s, idx |-> i]

\* re.match: the expression must match at the start of the string; "$"
\* requires the match to end where the string ends.
RegexMatch(regex, str) ==
    /\ Len(str) >= Len(regex.toks)
    /\ \A i \in 1..Len(regex.toks) :
           regex.toks[i] = "." \/ regex.toks[i] = str[i]
    /\ regex.dollar => Len(str) = Len(regex.toks)

\* Suite.get_case, the loop from position i on.
RECURSIVE get_case_loop(_, _, _, _)
get_case_loop(ss, s, name, i) ==
    IF i > Len(ss[s].cases) THEN None
    ELSE IF ss[s].cases[i].name = name THEN CaseRef(s, i)
    ELSE get_case_loop(ss, s, name, i + 1)

get_case_last(ss, s, name) ==
    LET hits == { i \in 1..Len(ss[s].cases) : ss[s].cases[i].name = name }
    IN  IF hits = {} THEN None
        ELSE CaseRef(s, CHOOSE i \in hits : \A j \in hits : j <= i)

\* Suite.get_case
Suite_get_case(ss, s, name) == get_case_loop(ss, s, name, 1)

AddAlways(case_set, case) == case_set \cup {case}

AddReplacing(case_set, case) ==
    IF case # None THEN {case} ELSE case_set

\* "if case: case_set.add(case)": a Case object is always true, None is not.
AddIfFound(case_set, case) ==
    IF case # None THEN case_set \cup {case} ELSE case_set

\* The inner loop of Suite.match_case_set: the paths still to visit.
RECURSIVE path_loop(_, _, _, _, _)
path_loop(ss, s, pattern, todo, case_set) ==
    IF todo = {} THEN case_set
    ELSE LET src_path == CHOOSE p \in todo : TRUE
         IN  path_loop(ss, s, pattern, todo \ {src_path},
                 IF RegexMatch(pattern.pattern, src_path)
                 THEN AddIfFound(case_set,
                                 Suite_get_case(ss, s, pattern.case_name))
                 ELSE case_set)

\* The outer loop of Suite.match_case_set: the patterns from position i on.
RECURSIVE pattern_loop(_, _, _, _, _)
pattern_loop(ss, s, src_path_set, i, case_set) ==
    IF i > Len(ss[s].patterns) THEN case_set
    ELSE pattern_loop(ss, s, src_path_set, i + 1,
             path_loop(ss, s, ss[s].patterns[i], src_path_set, case_set))

NoCases(ss, s) == {}

\* set(self.cases)
AllCases(ss, s) == { CaseRef(s, i) : i \in 1..Len(ss[s].cases) }

\* Suite.match_case_set
Suite_match_case_set(ss, s, src_path_set) ==
    IF src_path_set # {}
    THEN pattern_loop(ss, s, src_path_set, 1, {})
    ELSE AllCases(ss, s)

MatchesAlways(ss, s, src_path_set) == TRUE

\* Suite.matches: bool() of a set is whether it is not empty.
Suite_matches(ss, s, src_path_set) ==
    Suite_match_case_set(ss, s, src_path_set) # {}

---------------------------------------------------------------------------
(* Base *)

AllSuites(ss, src_path_set) == 1..Len(ss)

\* Base.match_suite_set
Base_match_suite_set(ss, src_path_set) ==
    { s \in 1..Len(ss) : Suite_matches(ss, s, src_path_set) }

Overwrite(case_set, more) == more

\* "case_set |= ..."
UnionInto(case_set, more) == case_set \cup more

\* The loop of Base.match_case_set: the suites from position s on.
RECURSIVE suite_loop(_, _, _, _)
suite_loop(ss, src_path_set, s, case_set) ==
    IF s > Len(ss) THEN case_set
    ELSE suite_loop(ss, src_path_set, s + 1,
             UnionInto(case_set, Suite_match_case_set(ss, s, src_path_set)))

\* Base.match_case_set
Base_match_case_set(ss, src_path_set) == suite_loop(ss, src_path_set, 1, {})


---------------------------------------------------------------------------
(* Object: the binder of resolved data to attributes *)

\* The classes derived from Object.
Types == {"Case", "Suite", "Base"}

\* schema.recognize().required.keys(), in order.
Required(type) ==
    CASE type = "Case"  -> <<"name">>
      [] type = "Suite" -> <<"description", "version", "patterns", "cases">>
      [] type = "Base"  -> <<"schema", "suites", "trees">>

\* schema.recognize().optional.keys(), in order.
Optional(type) ==
    CASE type = "Case"  -> <<"ignore_panic", "hostRequires", "partitions",
                             "kickstart", "tasks">>
      [] type = "Suite" -> <<"tasks", "ignore_panic", "hostRequires",
                             "partitions", "kickstart">>
      [] type = "Base"  -> <<>>

Range(q) == { q[i] : i \in DOMAIN q }

Members(type) == Range(Required(type)) \cup Range(Optional(type))

\* No exception.
NoError == [class |-> "none", args |-> <<>>]

\* An object no attribute of which is assigned.
NoAttrs == [ k \in {} |-> NoneValue ]

\* What schema.resolve(data) does: it raises Invalid, or returns a dict.
Raises(class, args) ==
    [raises |-> TRUE, error |-> [class |-> class, args |-> args],
     data |-> NoAttrs]
Returns(data) == [raises |-> FALSE, error |-> NoError, data |-> data]

\* Struct.validate: the required members must be present.
Struct_validate(type, data) == Range(Required(type)) \subseteq DOMAIN data

\* "except Invalid: raise Invalid("Invalid {} data", type(self).__name__)"
ResolveFailure(type, error) ==
    [class |-> "Invalid", args |-> <<"Invalid {} data", type>>]

ValidateFailureAsInvalid(type) ==
    [class |-> "Invalid", args |-> <<"Resolved data is invalid", type>>]

\* "except Invalid as exc: raise Exception("Resolved data is invalid...")"
ValidateFailure(type) ==
    [class |-> "Exception", args |-> <<"Resolved data is invalid", type>>]

\* setattr(self, name, value)
SetAttr(attrs, name, value) ==
    [ k \in DOMAIN attrs \cup {name} |-> IF k = name THEN value ELSE attrs[k] ]

\* data.get(member_name, None)
OptionalValue(data, name) ==
    IF name \in DOMAIN data THEN data[name] ELSE NoneValue

\* The loop over schema.required.keys(), from position i on: data[name]
\* raises KeyError when the member is not in the data.
RECURSIVE assign_required(_, _, _, _)
assign_required(type, data, i, obj) ==
    IF i > Len(Required(type)) THEN obj
    ELSE IF Required(type)[i] \notin DOMAIN data
    THEN [obj EXCEPT !.raised = [class |-> "KeyError",
                                 args |-> <<Required(type)[i]>>]]
    ELSE assign_required(type, data, i + 1,
             [obj EXCEPT !.attrs = SetAttr(obj.attrs, Required(type)[i],
                                           data[Required(type)[i]])])

\* The loop over schema.optional.keys(), from position i on.
RECURSIVE assign_optional(_, _, _, _)
assign_optional(type, data, i, obj) ==
    IF obj.raised # NoError \/ i > Len(Optional(type)) THEN obj
    ELSE assign_optional(type, data, i + 1,
             [obj EXCEPT !.attrs = SetAttr(obj.attrs, Optional(type)[i],
                               OptionalValue(data, Optional(type)[i]))])

\* Object.__init__, given what schema.resolve(data) does: the exception it
\* raises, if any, and the attributes of self when it ends. Only Invalid is
\* caught around resolve. schema.recognize() is the Struct whose members
\* Required and Optional list, for each of the three classes.
Object_init(type, resolved) ==
    IF resolved.raises /\ resolved.error.class = "Invalid"
    THEN [raised |-> ResolveFailure(type, resolved.error), attrs |-> NoAttrs]
    ELSE IF resolved.raises
    THEN [raised |-> resolved.error, attrs |-> NoAttrs]
    ELSE IF ~Struct_validate(type, resolved.data)
    THEN [raised |-> ValidateFailure(type), attrs |-> NoAttrs]
    ELSE assign_optional(type, resolved.data, 1,
             assign_required(type, resolved.data, 1,
                 [raised |-> NoError, attrs |-> NoAttrs]))


---------------------------------------------------------------------------
(* Base.__init__: loading index.yaml through the schema ancestry *)

\* A suite entry of the index that is still a file path.
PathEntry(path) ==
    [tag |-> "str", path |-> path, obj |-> [cases |-> <<>>, patterns |-> <<>>]]

\* A suite entry of the index that is a Suite object.
SuiteEntry(obj) == [tag |-> "Suite", path |-> "", obj |-> obj]

\* YAMLFile(Class(Suite)).resolve of one entry: the file is loaded and a
\* Suite is constructed from it, which raises Invalid for a document that
\* is no suite; an entry that is a Suite already resolves to itself.
Entry_resolve(files, entry) ==
    IF entry.tag = "Suite" THEN Returns(entry)
    ELSE IF ~files[entry.path].valid
    THEN Raises("Invalid", <<"Invalid {} data", "Suite">>)
    ELSE Returns(SuiteEntry(files[entry.path].doc))

\* StrictStruct(schema=..., suites=Dict(...) or List(...), trees=...).resolve:
\* the suites must be of the kind the schema asks for ("dict" or "list") and
\* every entry must resolve.
Index_resolve(kind, files, raw) ==
    IF raw.suites.kind # kind
    THEN Raises("Invalid", <<"suites", kind>>)
    ELSE IF \E i \in DOMAIN raw.suites.vals :
                Entry_resolve(files, raw.suites.vals[i]).raises
    THEN Raises("Invalid", <<"suites", "entry">>)
    ELSE Returns([raw EXCEPT !.suites.vals =
                      [ i \in DOMAIN raw.suites.vals |->
                          Entry_resolve(files, raw.suites.vals[i]).data ]])

\* A Python list of the values.
ListOf(vals) == [kind |-> "list", keys |-> <<>>, vals |-> vals]

convert_in_place(old_data) ==
    LET data == [old_data EXCEPT !.suites = ListOf(old_data.suites.vals)]
    IN  [old_data |-> data, data |-> data]

\* convert, the migration of Base.__init__: the dict it was given as the
\* call leaves it, and the dict it returns. dict.copy() is a new dict with
\* the same values; the list holds the values in the dict's own order.
convert(old_data) ==
    LET data == [old_data EXCEPT !.suites = ListOf(old_data.suites.vals)]
    IN  [old_data |-> old_data, data |-> data]

\* No migration was made.
NoMigration == [called |-> FALSE]

\* Ancestry(prior, convert, current).resolve: the current schema is tried
\* first; when it raises Invalid, the prior schema is tried and what it
\* resolves is converted and resolved with the current schema; when the
\* prior schema raises too, the current schema's Invalid is raised.
Ancestry_resolve(files, raw) ==
    LET current == Index_resolve("list", files, raw)
        prior == Index_resolve("dict", files, raw)
        converted == convert(prior.data)
    IN  IF ~current.raises
        THEN [resolved |-> current, migration |-> NoMigration]
        ELSE IF prior.raises
        THEN [resolved |-> current, migration |-> NoMigration]
        ELSE [resolved |-> Index_resolve("list", files, converted.data),
              migration |-> [called |-> TRUE,
                             given |-> prior.data,
                             left |-> converted.old_data,
                             returned |-> converted.data]]

\* Base.__init__: the exception raised, if any, the attributes of self when
\* it ends, and the migration made.
Base_init(d) ==
    LET loaded == Ancestry_resolve(d.files, d.index)
        obj == Object_init("Base", loaded.resolved)
    IN  [raised |-> obj.raised,
         attrs |-> IF obj.raised = NoError
                   THEN SetAttr(obj.attrs, "dir_path", d.dir_path)
                   ELSE obj.attrs,
         migration |-> loaded.migration]


---------------------------------------------------------------------------
(* Base.generate_run *)

\* A text: whether it is well-formed XML, the number of suites it reports,
\* and whether it is pretty-printed with an XML declaration.
Text(wellformed, says) ==
    [wellformed |-> wellformed, says |-> says, pretty |-> FALSE]

\* No text is returned.
NoText == [wellformed |-> FALSE, says |-> -1, pretty |-> FALSE]

\* No parameter is bound.
NoParams == [bound |-> FALSE]

SuiteSetMatching(ss, src_path_set) ==
    { s \in 1..Len(ss) : Suite_matches(ss, s, src_path_set) }

\* set(self.suites), the SUITE_SET parameter.
SuiteSetParam(ss, src_path_set) == { s : s \in 1..Len(ss) }

\* The dict of template parameters. The callables match_suite_set and
\* match_case_set are the methods of this database, and getenv is
\* os.getenv.
Params(ss, description, tree_name, arch_name, kernel_location, src_path_set) ==
    [bound |-> TRUE,
     DESCRIPTION |-> description,
     KURL |-> kernel_location,
     ARCH |-> arch_name,
     TREE |-> tree_name,
     SRC_PATH_SET |-> src_path_set,
     SUITE_SET |-> SuiteSetParam(ss, src_path_set)]

\* What jinja2 does with a template:
\*   "absent"     there is no such file: get_template raises
\*   "undefined"  rendering raises
\*   "all"        a well-formed document reporting the suites of SUITE_SET
\*   "matched"    a well-formed document reporting the suites of
\*                match_suite_set(SRC_PATH_SET)
\*   "plain"      a text reporting the suites of SUITE_SET that is not
\*                well-formed
TemplateKinds == {"absent", "undefined", "all", "matched", "plain"}

\* template.render(params)
Render(ss, template, params) ==
    CASE template = "undefined" ->
             Raises("UndefinedError", <<"render">>)
      [] template = "all" ->
             Returns(Text(TRUE, Cardinality(params.SUITE_SET)))
      [] template = "matched" ->
             Returns(Text(TRUE, Cardinality(
                 Base_match_suite_set(ss, params.SRC_PATH_SET))))
      [] template = "plain" ->
             Returns(Text(FALSE, Cardinality(params.SUITE_SET)))

\* "if lint:": etree.XML raises for a text that is not well-formed, and
\* etree.tostring pretty-prints the tree with an XML declaration.
Lint(text) ==
    IF ~text.wellformed THEN Raises("XMLSyntaxError", <<"lint">>)
    ELSE Returns([text EXCEPT !.pretty = TRUE])

\* Base.get_tree_template: the template, or the exception raised, and
\* whether jinja2 was asked for a template. Without the assert,
\* self.trees[tree_name] raises KeyError before get_template is called.
Base_get_tree_template(trs, templates, dbg, tree_name) ==
    IF tree_name \notin DOMAIN trs
    THEN [raised |-> IF dbg THEN [class |-> "AssertionError", args |-> <<>>]
                     ELSE [class |-> "KeyError", args |-> <<tree_name>>],
          asked |-> FALSE, template |-> "absent"]
    ELSE IF templates[trs[tree_name]] = "absent"
    THEN [raised |-> [class |-> "TemplateNotFound",
                      args |-> <<trs[tree_name]>>],
          asked |-> TRUE, template |-> "absent"]
    ELSE [raised |-> NoError, asked |-> TRUE,
          template |-> templates[trs[tree_name]]]

\* Base.generate_run: the exception raised, if any, the text returned, the
\* parameters bound and whether jinja2 was asked for a template.
Base_generate_run(ss, trs, templates, dbg, description, tree_name, arch_name, kernel_location, src_path_set, lint) ==
    IF dbg /\ tree_name \notin DOMAIN trs
    THEN [raised |-> [class |-> "AssertionError", args |-> <<>>],
          text |-> NoText, params |-> NoParams, asked |-> FALSE]
    ELSE
    LET params == Params(ss, description, tree_name, arch_name,
                         kernel_location, src_path_set)
        found == Base_get_tree_template(trs, templates, dbg, tree_name)
        rendered == Render(ss, found.template, params)
        linted == Lint(rendered.data)
    IN  IF found.raised # NoError
        THEN [raised |-> found.raised, text |-> NoText, params |-> params,
              asked |-> found.asked]
        ELSE IF rendered.raises
        THEN [raised |-> rendered.error, text |-> NoText, params |-> params,
              asked |-> TRUE]
        ELSE IF ~lint
        THEN [raised |-> NoError, text |-> rendered.data, params |-> params,
              asked |-> TRUE]
        ELSE IF linted.raises
        THEN [raised |-> linted.error, text |-> NoText, params |-> params,
              asked |-> TRUE]
        ELSE [raised |-> NoError, text |-> linted.data, params |-> params,
              asked |-> TRUE]

---------------------------------------------------------------------------
(* Calls on a loaded database *)

NoCall == [op |-> "none"]

\* No directory, for the calls that read none.
NoDir == [index |-> "none"]

\* Base.trees of a database without trees.
NoTrees == [ t \in {} |-> "" ]

\* A database that is loaded: the calls that follow read Base.suites only.
Init ==
    /\ dir = NoDir
    /\ debug = TRUE
    /\ suites \in DatabasesUpTo(MaxItems)
    /\ trees = NoTrees
    /\ ret = NoCall

\* The program is single-threaded and synchronous: a call is made when the
\* caller holds no pending result.
Idle == ret = NoCall

CallSuiteGetCase ==
    /\ Idle
    /\ \E s \in 1..Len(suites), name \in CaseNames :
           /\ ret' = [op |-> "Suite.get_case", self |-> s, name |-> name,
                      result |-> Suite_get_case(suites, s, name)]
           /\ UNCHANGED <<dir, debug, suites, trees>>

CallSuiteMatchCaseSet ==
    /\ Idle
    /\ \E s \in 1..Len(suites), src_path_set \in SUBSET Paths :
           /\ ret' = [op |-> "Suite.match_case_set", self |-> s,
                      src_path_set |-> src_path_set,
                      result |-> Suite_match_case_set(suites, s, src_path_set)]
           /\ UNCHANGED <<dir, debug, suites, trees>>

CallSuiteMatches ==
    /\ Idle
    /\ \E s \in 1..Len(suites), src_path_set \in SUBSET Paths :
           /\ ret' = [op |-> "Suite.matches", self |-> s,
                      src_path_set |-> src_path_set,
                      result |-> Suite_matches(suites, s, src_path_set)]
           /\ UNCHANGED <<dir, debug, suites, trees>>

CallBaseMatchSuiteSet ==
    /\ Idle
    /\ \E src_path_set \in SUBSET Paths :
           /\ ret' = [op |-> "Base.match_suite_set",
                      src_path_set |-> src_path_set,
                      result |-> Base_match_suite_set(suites, src_path_set)]
           /\ UNCHANGED <<dir, debug, suites, trees>>

CallBaseMatchCaseSet ==
    /\ Idle
    /\ \E src_path_set \in SUBSET Paths :
           /\ ret' = [op |-> "Base.match_case_set",
                      src_path_set |-> src_path_set,
                      result |-> Base_match_case_set(suites, src_path_set)]
           /\ UNCHANGED <<dir, debug, suites, trees>>

\* The caller is done with the value returned.
Return ==
    /\ ~Idle
    /\ ret' = NoCall
    /\ UNCHANGED <<dir, debug, suites, trees>>

Next ==
    \/ CallSuiteGetCase
    \/ CallSuiteMatchCaseSet
    \/ CallSuiteMatches
    \/ CallBaseMatchSuiteSet
    \/ CallBaseMatchCaseSet
    \/ Return

Spec == Init /\ [][Next]_vars

---------------------------------------------------------------------------
(* Selection: Suite.get_case, Suite.match_case_set, Suite.matches,         *)
(* Base.match_suite_set, Base.match_case_set                               *)

\* The Case objects a suite declares.
DeclaredCases(s) ==
    { [suite |-> s, idx |-> i] : i \in DOMAIN suites[s].cases }

\* The positions of the cases of suite s called name.
Named(s, name) ==
    { i \in DOMAIN suites[s].cases : suites[s].cases[i].name = name }

\* Pattern i of suite s names no case of the suite.
Dangling(s, i) == Named(s, suites[s].patterns[i].case_name) = {}

\* A sequence without its element at position i.
RemoveAt(q, i) == [ j \in 1..(Len(q) - 1) |-> IF j < i THEN q[j] ELSE q[j + 1] ]

\* The database with pattern i of suite s removed.
WithoutPattern(s, i) ==
    [ suites EXCEPT ![s].patterns = RemoveAt(suites[s].patterns, i) ]

\* C1: Suite.match_case_set with the empty path set returns exactly the
\* cases the suite declares (one per declared case), and with a non-empty
\* path set a subset of them.
C1_EmptySelectsAll ==
    ret.op = "Suite.match_case_set" =>
        IF ret.src_path_set = {}
        THEN /\ ret.result = DeclaredCases(ret.self)
             /\ Cardinality(ret.result) = Len(suites[ret.self].cases)
        ELSE ret.result \subseteq DeclaredCases(ret.self)

\* C1 witness: a non-empty path set selected some, not all, of the cases.
C1_Witness ==
    /\ ret.op = "Suite.match_case_set"
    /\ ret.src_path_set # {}
    /\ ret.result # {}
    /\ ret.result # DeclaredCases(ret.self)

\* C2: with a non-empty path set, a case is selected if and only if some
\* pattern matches some path and get_case of the pattern's case_name is
\* that case.
C2_SelectedIffMatched ==
    (ret.op = "Suite.match_case_set" /\ ret.src_path_set # {}) =>
        ret.result =
            { c \in DeclaredCases(ret.self) :
                \E i \in DOMAIN suites[ret.self].patterns :
                    \E src_path \in ret.src_path_set :
                        /\ RegexMatch(suites[ret.self].patterns[i].pattern,
                                      src_path)
                        /\ Suite_get_case(suites, ret.self,
                               suites[ret.self].patterns[i].case_name) = c }

\* C2 witness: one path matched two patterns that name different cases, and
\* both cases were selected.
C2_Witness ==
    /\ ret.op = "Suite.match_case_set"
    /\ Cardinality(ret.src_path_set) = 1
    /\ Cardinality(ret.result) = 2
    /\ \A i \in DOMAIN suites[ret.self].patterns :
           \A src_path \in ret.src_path_set :
               RegexMatch(suites[ret.self].patterns[i].pattern, src_path)

\* C3: Base.match_case_set is the union of Suite.match_case_set over the
\* suites of the database.
C3_UnionOverSuites ==
    ret.op = "Base.match_case_set" =>
        ret.result =
            UNION { Suite_match_case_set(suites, s, ret.src_path_set) :
                    s \in DOMAIN suites }

\* C3 witness: a non-empty path set selected cases of two suites.
C3_Witness ==
    /\ ret.op = "Base.match_case_set"
    /\ ret.src_path_set # {}
    /\ \E c1, c2 \in ret.result : c1.suite # c2.suite

\* C4: Suite.get_case returns the first declared case of that name, or None
\* when there is none; a non-empty path set never selects a case declared
\* after another case of the same name.
C4_FirstDeclared ==
    /\ ret.op = "Suite.get_case" =>
          IF Named(ret.self, ret.name) = {}
          THEN ret.result = None
          ELSE /\ ret.result.suite = ret.self
               /\ ret.result.idx \in Named(ret.self, ret.name)
               /\ \A j \in Named(ret.self, ret.name) : ret.result.idx <= j
    /\ (ret.op = "Suite.match_case_set" /\ ret.src_path_set # {}) =>
          \A c \in ret.result :
              \A j \in Named(ret.self, suites[ret.self].cases[c.idx].name) :
                  c.idx <= j

\* C4 witness: get_case was called with a name that two cases of the suite
\* share, the two differing in an optional field.
C4_Witness ==
    /\ ret.op = "Suite.get_case"
    /\ \E i, j \in Named(ret.self, ret.name) :
           /\ i < j
           /\ suites[ret.self].cases[i].tasks # suites[ret.self].cases[j].tasks
           /\ ret.result = [suite |-> ret.self, idx |-> i]

\* C5: a pattern that names no case of the suite changes nothing: the
\* result is a set of Case objects (None is not in it) and equals the result
\* for the suite without that pattern.
C5_DanglingInert ==
    ret.op = "Suite.match_case_set" =>
        /\ None \notin ret.result
        /\ \A i \in DOMAIN suites[ret.self].patterns :
               Dangling(ret.self, i) =>
                   ret.result = Suite_match_case_set(
                       WithoutPattern(ret.self, i), ret.self, ret.src_path_set)

\* C5 witness: a dangling pattern matched a path, beside a pattern that
\* selected a case.
C5_Witness ==
    /\ ret.op = "Suite.match_case_set"
    /\ ret.result # {}
    /\ \E i \in DOMAIN suites[ret.self].patterns :
           /\ Dangling(ret.self, i)
           /\ \E src_path \in ret.src_path_set :
                  RegexMatch(suites[ret.self].patterns[i].pattern, src_path)

\* C6: Base.match_suite_set is the set of suites whose match_case_set is not
\* empty, which are the suites with a case in Base.match_case_set; and
\* Suite.matches tells whether match_case_set is not empty.
C6_SuitesWithCases ==
    /\ ret.op = "Base.match_suite_set" =>
          /\ ret.result =
                 { s \in DOMAIN suites :
                     Suite_match_case_set(suites, s, ret.src_path_set) # {} }
          /\ ret.result =
                 { s \in DOMAIN suites :
                     \E c \in Base_match_case_set(suites, ret.src_path_set) :
                         c.suite = s }
    /\ ret.op = "Suite.matches" =>
          (ret.result <=>
              Suite_match_case_set(suites, ret.self, ret.src_path_set) # {})

\* C6 witness: a non-empty path set selected one suite and left out another.
C6_Witness ==
    /\ ret.op = "Base.match_suite_set"
    /\ ret.src_path_set # {}
    /\ ret.result # {}
    /\ ret.result # DOMAIN suites

\* C7 as stated: with the empty path set, match_suite_set returns every
\* suite of the database and match_case_set every case of every suite.
C7_EmptySelectsEverySuite ==
    /\ (ret.op = "Base.match_suite_set" /\ ret.src_path_set = {}) =>
          ret.result = DOMAIN suites
    /\ (ret.op = "Base.match_case_set" /\ ret.src_path_set = {}) =>
          ret.result = UNION { DeclaredCases(s) : s \in DOMAIN suites }

\* C7 amended: with the empty path set, match_suite_set returns every suite
\* that declares at least one case, and match_case_set every case of every
\* suite.
C7_EmptySelectsEverySuiteWithCases ==
    /\ (ret.op = "Base.match_suite_set" /\ ret.src_path_set = {}) =>
          ret.result = { s \in DOMAIN suites : Len(suites[s].cases) > 0 }
    /\ (ret.op = "Base.match_case_set" /\ ret.src_path_set = {}) =>
          ret.result = UNION { DeclaredCases(s) : s \in DOMAIN suites }

\* C7 witness: match_suite_set was called with the empty path set on a
\* database with a suite that declares cases and one that declares none.
C7_Witness ==
    /\ ret.op = "Base.match_suite_set"
    /\ ret.src_path_set = {}
    /\ \E s \in DOMAIN suites : Len(suites[s].cases) > 0
    /\ \E s \in DOMAIN suites : Len(suites[s].cases) = 0

---------------------------------------------------------------------------
(* Construction of objects from what schema.resolve yields *)

\* Resolved values of members.
Values == {"v1", "v2"}

\* The dicts over some of the members of a type.
Dicts(type) == UNION { [D -> Values] : D \in SUBSET Members(type) }

\* What schema.resolve may do for a type: raise Invalid with the detail of
\* the nested failure, or return a dict.
ResolveOutcomes(type) ==
    { Raises("Invalid", <<"detail">>) } \cup { Returns(d) : d \in Dicts(type) }

InitBind ==
    /\ dir = NoDir
    /\ debug = TRUE
    /\ suites = <<>>
    /\ trees = NoTrees
    /\ ret = NoCall

ConstructObject ==
    /\ Idle
    /\ \E type \in Types :
           \E resolved \in ResolveOutcomes(type) :
               LET obj == Object_init(type, resolved)
               IN  ret' = [op |-> "Object.__init__", type |-> type,
                           resolved |-> resolved,
                           raised |-> obj.raised, attrs |-> obj.attrs]
    /\ UNCHANGED <<dir, debug, suites, trees>>

NextBind ==
    \/ ConstructObject
    \/ Return

SpecBind == InitBind /\ [][NextBind]_vars

---------------------------------------------------------------------------
(* Loading databases *)

\* The number of suites an index document lists.
MaxIndexSuites == 2

SuiteFiles == {"s1.yaml", "s2.yaml"}

\* What a suite file may hold: a suite document, or something that is none.
SuiteFileContents ==
    { [valid |-> FALSE, doc |-> [cases |-> <<>>, patterns |-> <<>>]] } \cup
    { [valid |-> TRUE, doc |-> s] : s \in SuitesOfSize(1) \cup SuitesOfSize(2) }

TreesDoc == [ t \in {"upstream"} |-> "upstream.xml" ]

\* The suites of an index document: a dict of name -> path (the names are
\* distinct: the name at position i is i), a list of paths, or a string.
SuitesDocs ==
    UNION { { [kind |-> "dict", keys |-> [ i \in 1..n |-> i ],
               vals |-> [ i \in 1..n |-> PathEntry(q[i]) ]],
              [kind |-> "list", keys |-> <<>>,
               vals |-> [ i \in 1..n |-> PathEntry(q[i]) ]] } :
            n \in 0..MaxIndexSuites, q \in SeqsOfLen(SuiteFiles, MaxIndexSuites) }
    \cup { [kind |-> "str", keys |-> <<>>, vals |-> <<>>] }

\* Base.is_dir_valid holds: the directory has an index.yaml.
InitLoad ==
    /\ \E sd \in SuitesDocs, files \in [SuiteFiles -> SuiteFileContents] :
           dir = [dir_path |-> "db",
                  index |-> [schema |-> [version |-> 1], suites |-> sd,
                             trees |-> TreesDoc],
                  files |-> files]
    /\ debug = TRUE
    /\ suites = <<>>
    /\ trees = NoTrees
    /\ ret = NoCall

ConstructBase ==
    /\ Idle
    /\ LET base == Base_init(dir)
       IN  /\ ret' = [op |-> "Base.__init__", raised |-> base.raised,
                      attrs |-> base.attrs, migration |-> base.migration]
           /\ IF base.raised = NoError
              THEN /\ suites' = [ i \in DOMAIN base.attrs.suites.vals |->
                                    base.attrs.suites.vals[i].obj ]
                   /\ trees' = base.attrs.trees
              ELSE UNCHANGED <<suites, trees>>
    /\ UNCHANGED <<dir, debug>>

NextLoad ==
    \/ ConstructBase
    \/ Return

SpecLoad == InitLoad /\ [][NextLoad]_vars

\* The index document of the directory with its suites as the list of the
\* values of the dict.
AsCurrent(d) == [d EXCEPT !.index.suites = ListOf(d.index.suites.vals)]

\* The Suite objects of a constructed Base, as a set.
SuiteSet(attrs) == Range(attrs.suites.vals)

\* C8: a Base is constructed from a legacy index document (suites as a dict)
\* exactly when one is constructed from the current document listing the
\* same suite files, and then with the same set of suites; the migration
\* returns the data it was given with the suites replaced by the list of
\* the dict's values, and leaves the data it was given as it was.
C8_AncestryFallback ==
    (ret.op = "Base.__init__" /\ dir.index.suites.kind = "dict") =>
        LET current == Base_init(AsCurrent(dir))
        IN  /\ (ret.raised = NoError) <=> (current.raised = NoError)
            /\ ret.raised = NoError =>
                  /\ SuiteSet(ret.attrs) = SuiteSet(current.attrs)
                  /\ Range(suites) =
                         { dir.files[dir.index.suites.vals[i].path].doc :
                             i \in DOMAIN dir.index.suites.vals }
                  /\ ret.migration.called
                  /\ ret.migration.returned.schema = ret.migration.given.schema
                  /\ ret.migration.returned.trees = ret.migration.given.trees
                  /\ ret.migration.returned.suites =
                         ListOf(ret.migration.given.suites.vals)
                  /\ ret.migration.left = ret.migration.given
                  /\ ret.migration.given.suites.kind = "dict"

\* C8 witness: a Base was constructed from a legacy index document naming
\* two suite files with different suites.
C8_Witness ==
    /\ ret.op = "Base.__init__"
    /\ dir.index.suites.kind = "dict"
    /\ ret.raised = NoError
    /\ Len(suites) = 2
    /\ suites[1] # suites[2]
    /\ trees = TreesDoc

---------------------------------------------------------------------------
(* Generating runs *)

\* The size of the databases runs are generated from.
MaxRunItems == 3

\* Tree names a caller may pass; "rhel" is no tree of the database.
TreeNames == {"upstream", "rhel"}

InitRun ==
    /\ \E template \in TemplateKinds :
           dir = [dir_path |-> "db",
                  templates |-> [ f \in {"upstream.xml"} |-> template ]]
    /\ debug \in BOOLEAN
    /\ suites \in DatabasesUpTo(MaxRunItems)
    /\ trees = TreesDoc
    /\ ret = NoCall

CallBaseGenerateRun ==
    /\ Idle
    /\ \E tree_name \in TreeNames, src_path_set \in SUBSET Paths,
          lint \in BOOLEAN :
           LET run == Base_generate_run(suites, trees, dir.templates, debug,
                          "description", tree_name, "x86_64", "kernel.rpm",
                          src_path_set, lint)
           IN  ret' = [op |-> "Base.generate_run", tree_name |-> tree_name,
                       src_path_set |-> src_path_set, lint |-> lint,
                       raised |-> run.raised, text |-> run.text,
                       params |-> run.params, asked |-> run.asked]
    /\ UNCHANGED <<dir, debug, suites, trees>>

NextRun ==
    \/ CallBaseGenerateRun
    \/ Return

SpecRun == InitRun /\ [][NextRun]_vars

\* The template of the tree asked for, when the tree is known.
TemplateOf(tree_name) == dir.templates[trees[tree_name]]

\* C10: generate_run with an unknown tree name raises before jinja2 is asked
\* for a template; it raises when the template cannot be loaded or
\* rendered, and when lint is asked for a text that is not well-formed; when
\* it raises no text is returned, when it returns with lint the text is the
\* linted one; SUITE_SET is bound to all the suites of the database.
C10_RunAllOrNothing ==
    ret.op = "Base.generate_run" =>
        LET known == ret.tree_name \in DOMAIN trees
        IN  /\ ~known => (ret.raised # NoError /\ ~ret.asked)
            /\ (known /\ TemplateOf(ret.tree_name) \in {"absent", "undefined"})
                   => ret.raised # NoError
            /\ (known /\ ret.lint /\ TemplateOf(ret.tree_name) = "plain")
                   => ret.raised # NoError
            /\ ret.raised # NoError => ret.text = NoText
            /\ ret.raised = NoError =>
                   /\ ret.text # NoText
                   /\ ret.params.bound
                   /\ ret.text.pretty = ret.lint
                   /\ ret.lint => ret.text.wellformed
                   /\ ret.text.says =
                          IF TemplateOf(ret.tree_name) = "matched"
                          THEN Cardinality({ s \in DOMAIN suites :
                                   Suite_match_case_set(suites, s,
                                       ret.src_path_set) # {} })
                          ELSE Len(suites)
            /\ ret.params.bound =>
                   /\ ret.params.SUITE_SET = DOMAIN suites
                   /\ ret.params.SRC_PATH_SET = ret.src_path_set
                   /\ ret.params.TREE = ret.tree_name

\* C10 witness: a linted run was returned for a path set that does not
\* match every suite, from a template that reports SUITE_SET.
C10_Witness ==
    /\ ret.op = "Base.generate_run"
    /\ ret.raised = NoError
    /\ ret.lint
    /\ ret.src_path_set # {}
    /\ TemplateOf(ret.tree_name) = "all"
    /\ Base_match_suite_set(suites, ret.src_path_set) # DOMAIN suites
    /\ ret.text.says = Len(suites)

===========================================================================
